---- MODULE Spec2Model ----
(***************************************************************************)
(* Betting state machine of autonomous_poker_ai.py: Player, Pot, Table and *)
(* GameController, driven through the public calls start_hand,             *)
(* get_legal_actions, process_action and advance_phase.                    *)
(*                                                                         *)
(* Chips are counted in units of the small blind of the reference table    *)
(* (blinds 10/20 are 1/2 here), so the scenarios of the tests keep their   *)
(* proportions on small numbers.                                           *)
(***************************************************************************)
EXTENDS Integers, FiniteSets, Sequences, TLC

\* ---------------------------------------------------------------- bounds
MaxPlayers == 3
MaxStack == 3
MaxBigBlind == 2
MaxHands == 2
DeckSize == 9
HeroRange == 3
iterations == 2

\* ------------------------------------------------------------- GamePhase
PRE_FLOP == 0
FLOP == 1
TURN == 2
RIVER == 3
SHOWDOWN == 4

\* _next_active's "nobody found" result
NO_SEAT == -1

VARIABLES
    players,           \* Table.players: seat index 0..n-1 -> Player fields
    pot,               \* Table.pots[0].amount (the only pot there ever is)
    community_cards,   \* Table.community_cards: how many cards the list holds
    button_idx,        \* Table.button_idx
    small_blind_amount,
    big_blind_amount,
    phase,             \* GameController.phase
    current_idx,       \* GameController.current_idx
    min_raise,         \* GameController.min_raise
    highest_bet,       \* GameController.highest_bet
    acted_this_round,  \* GameController.acted_this_round
    sb_idx,            \* start_hand's local sb_idx of the last start_hand
    bb_idx,            \* start_hand's local bb_idx of the last start_hand
    since_raise,       \* history: seats that acted since the round's last RAISE
    hands,             \* history: number of start_hand calls so far
    mc,                \* _monte_carlo_equity: its arguments, locals and result
    hand_over          \* main: the showdown code has run ("Hand Over.")

game == <<players, pot, community_cards, button_idx, small_blind_amount, big_blind_amount, phase,
          current_idx, min_raise, highest_bet, acted_this_round>>
vars == <<players, pot, community_cards, button_idx, small_blind_amount, big_blind_amount, phase,
          current_idx, min_raise, highest_bet, acted_this_round,
          sb_idx, bb_idx, since_raise, hands, mc, hand_over>>

\* ---------------------------------------------------------------- inputs
ActionNames == {"FOLD", "CHECK", "CALL", "RAISE", "BET"}
\* RAISE targets offered by the caller: 0 (the default, "no amount") up to
\* one chip more than any all-in total, so that over-stack targets occur.
RaiseAmounts == 0 .. (MaxStack + 1)

Min(a, b) == IF a <= b THEN a ELSE b
Max(a, b) == IF a >= b THEN a ELSE b

NumPlayers == Cardinality(DOMAIN players)
Seats == DOMAIN players

\* Python list indexing: players[-1] is the last player.
Seat(idx) == IF idx < 0 THEN idx + NumPlayers ELSE idx

\* ---------------------------------------------------------------- Player
NewPlayer(stack) ==
    [stack |-> stack, is_active |-> TRUE, is_all_in |-> FALSE,
     current_bet |-> 0, total_invested |-> 0]

reset_for_hand(p) ==
    [p EXCEPT !.is_active = (p.stack > 0), !.is_all_in = FALSE,
              !.current_bet = 0, !.total_invested = 0]

reset_for_round(p) == [p EXCEPT !.current_bet = 0]

\* Player.bet: the player after the bet and the chips actually committed.
bet_uncapped(p, amount) ==
    [player |-> [p EXCEPT !.stack = p.stack - Min(amount, p.stack),
                          !.is_all_in = p.is_all_in \/ amount >= p.stack,
                          !.current_bet = p.current_bet + Min(amount, p.stack),
                          !.total_invested = p.total_invested + Min(amount, p.stack)],
     actual |-> amount]

bet_no_flag(p, amount) ==
    [player |-> [p EXCEPT !.stack = p.stack - Min(amount, p.stack),
                          !.current_bet = p.current_bet + Min(amount, p.stack),
                          !.total_invested = p.total_invested + Min(amount, p.stack)],
     actual |-> Min(amount, p.stack)]

bet(p, amount) ==
    LET actual == IF amount >= p.stack THEN p.stack ELSE amount
    IN  [player |-> [p EXCEPT !.stack = p.stack - actual,
                              !.is_all_in = p.is_all_in \/ amount >= p.stack,
                              !.current_bet = p.current_bet + actual,
                              !.total_invested = p.total_invested + actual],
         actual |-> actual]

\* ------------------------------------------------------- GameController
\* _next_active on a given player list: the first seat (start+1 .. start+n,
\* wrapping) that is active and not all-in, else -1.
RECURSIVE scan(_, _, _)
scan(ps, start, i) ==
    LET n == Cardinality(DOMAIN ps)
        idx == (start + i) % n
    IN  IF i > n THEN NO_SEAT
        ELSE IF ps[idx].is_active /\ ~ps[idx].is_all_in THEN idx
        ELSE scan(ps, start, i + 1)

next_active_self(ps, start) == scan(ps, start, 0)

_next_active(ps, start) == scan(ps, start, 1)

\* is_round_over on given players / acted-set / highest bet
round_over_bets_only(ps, acted, highest) ==
    \A i \in DOMAIN ps :
        (ps[i].is_active /\ ~ps[i].is_all_in) => ~(ps[i].current_bet < highest)

is_round_over_of(ps, acted, highest) ==
    \A i \in DOMAIN ps :
        (ps[i].is_active /\ ~ps[i].is_all_in) =>
            ~(i \notin acted \/ ps[i].current_bet < highest)

is_round_over == is_round_over_of(players, acted_this_round, highest_bet)

\* get_legal_actions for player p. Python's False in the RAISE entries is 0
\* here (False == 0 in Python, and both are falsy in process_action's test).
legal_raise_uncapped(p, highest, minr) ==
    LET call_amt == highest - p.current_bet
    IN  [FOLD |-> TRUE,
         CALL |-> Min(call_amt, p.stack),
         CHECK |-> (call_amt = 0),
         RAISE_TO_MIN |-> IF p.stack > call_amt THEN highest + minr ELSE 0,
         RAISE_TO_MAX |-> IF p.stack > call_amt THEN p.stack + p.current_bet ELSE 0]

legal_actions_of(p, highest, minr) ==
    LET call_amt == highest - p.current_bet
    IN  [FOLD |-> TRUE,
         CALL |-> Min(call_amt, p.stack),
         CHECK |-> (call_amt = 0),
         RAISE_TO_MIN |-> IF p.stack > call_amt
                          THEN Min(highest + minr, p.stack + p.current_bet)
                          ELSE 0,
         RAISE_TO_MAX |-> IF p.stack > call_amt
                          THEN p.stack + p.current_bet
                          ELSE 0]

get_legal_actions == legal_actions_of(players[Seat(current_idx)], highest_bet, min_raise)

\* The three ValueErrors of the RAISE branch, in the order of the code.
raise_rejected_lax(p, highest, minr, amount) ==
    \/ amount = 0
    \/ amount - p.current_bet < 0

raise_rejected(p, highest, minr, amount) ==
    \/ amount = 0
    \/ amount < highest + minr /\ amount # p.stack + p.current_bet
    \/ amount - p.current_bet < 0

\* Whether a RAISE to amount reopens the action (line 254).
reopens_strict(highest, minr, amount) == amount - highest > minr

reopens(highest, minr, amount) == amount - highest >= minr

\* The sampler when it is not running: no arguments, no locals, no result.
McIdle ==
    [pc |-> "idle", pocket_cards |-> <<>>, board_cards |-> <<>>,
     known_cards |-> {}, available_cards |-> {}, opp_cards |-> <<>>,
     simulated_board |-> <<>>, wins |-> 0, ties |-> 0, done |-> 0,
     equity |-> 0]

\* ------------------------------------------------------------------ Init
\* Table(bb // 2, bb), n players of one stack size, GameController(table).
Init ==
    \E n \in 2 .. MaxPlayers, stack \in 1 .. MaxStack, bb \in 1 .. MaxBigBlind :
        /\ players = [i \in 0 .. (n - 1) |-> NewPlayer(stack)]
        /\ pot = 0
        /\ community_cards = 0
        /\ button_idx = 0
        /\ small_blind_amount = bb \div 2
        /\ big_blind_amount = bb
        /\ phase = PRE_FLOP
        /\ current_idx = 0
        /\ min_raise = bb
        /\ highest_bet = 0
        /\ acted_this_round = {}
        /\ sb_idx = NO_SEAT
        /\ bb_idx = NO_SEAT
        /\ since_raise = {}
        /\ hands = 0
        /\ mc = McIdle
        /\ hand_over = FALSE

\* ------------------------------------------------------------ start_hand
StartHand ==
    LET n == NumPlayers
        reset == [i \in Seats |-> reset_for_hand(players[i])]
        button == (button_idx + 1) % n
        sb == _next_active(reset, button)
        bb == _next_active(reset, sb)
        sbBet == bet(reset[Seat(sb)], small_blind_amount)
        afterSb == [reset EXCEPT ![Seat(sb)] = sbBet.player]
        bbBet == bet(afterSb[Seat(bb)], big_blind_amount)
        afterBb == [afterSb EXCEPT ![Seat(bb)] = bbBet.player]
    IN  /\ hands < MaxHands
        /\ hands' = hands + 1
        /\ players' = afterBb
        /\ pot' = sbBet.actual + bbBet.actual
        /\ community_cards' = 0
        /\ button_idx' = button
        /\ phase' = PRE_FLOP
        /\ highest_bet' = big_blind_amount
        /\ min_raise' = big_blind_amount
        /\ current_idx' = _next_active(afterBb, bb)
        /\ acted_this_round' = {}
        /\ sb_idx' = sb
        /\ bb_idx' = bb
        /\ since_raise' = {}
        /\ UNCHANGED <<small_blind_amount, big_blind_amount, mc, hand_over>>

\* ----------------------------------------------------- get_legal_actions
GetLegalActions ==
    UNCHANGED vars

\* -------------------------------------------------------- process_action
\* The state process_action(action, amount) leaves, or ok = FALSE when it
\* raises ValueError.
Outcome(action, amount) ==
    LET seat == Seat(current_idx)
        p == players[seat]
        legal == get_legal_actions
        same == [ok |-> TRUE, players |-> players, pot |-> pot,
                 highest_bet |-> highest_bet, min_raise |-> min_raise,
                 acted |-> acted_this_round, raised |-> FALSE]
    IN  IF action = "FOLD" THEN
            [same EXCEPT !.players = [players EXCEPT ![seat].is_active = FALSE]]
        ELSE IF action = "CHECK" /\ legal.CHECK THEN
            same
        ELSE IF action = "CALL" THEN
            LET b == bet(p, legal.CALL)
            IN  [same EXCEPT !.players = [players EXCEPT ![seat] = b.player],
                             !.pot = pot + b.actual]
        ELSE IF action = "RAISE" /\ legal.RAISE_TO_MIN # 0 THEN
            IF raise_rejected(p, highest_bet, min_raise, amount) THEN
                [same EXCEPT !.ok = FALSE]
            ELSE
                LET b == bet(p, amount - p.current_bet)
                    re == reopens(highest_bet, min_raise, amount)
                IN  [ok |-> TRUE,
                     players |-> [players EXCEPT ![seat] = b.player],
                     pot |-> pot + b.actual,
                     highest_bet |-> amount,
                     min_raise |-> IF re THEN amount - highest_bet ELSE min_raise,
                     acted |-> IF re THEN {} ELSE acted_this_round,
                     raised |-> TRUE]
        ELSE
            [same EXCEPT !.ok = FALSE]

\* process_action without acted_this_round.add(current_idx).
ProcessActionUnmarked(action, amount) ==
    LET o == Outcome(action, amount)
        acted == o.acted
    IN  /\ hands > 0
        /\ IF o.ok THEN
               /\ players' = o.players
               /\ pot' = o.pot
               /\ highest_bet' = o.highest_bet
               /\ min_raise' = o.min_raise
               /\ acted_this_round' = acted
               /\ current_idx' = IF ~is_round_over_of(o.players, acted, o.highest_bet)
                                 THEN _next_active(o.players, current_idx)
                                 ELSE current_idx
               /\ since_raise' = IF o.raised THEN {Seat(current_idx)}
                                 ELSE since_raise \cup {Seat(current_idx)}
               /\ UNCHANGED <<button_idx, small_blind_amount, big_blind_amount,
                              phase, sb_idx, bb_idx, hands, mc, hand_over,
                              community_cards>>
           ELSE
               UNCHANGED vars

ProcessAction(action, amount) ==
    LET o == Outcome(action, amount)
        acted == o.acted \cup {current_idx}
    IN  /\ hands > 0
        /\ IF o.ok THEN
               /\ players' = o.players
               /\ pot' = o.pot
               /\ highest_bet' = o.highest_bet
               /\ min_raise' = o.min_raise
               /\ acted_this_round' = acted
               /\ current_idx' = IF ~is_round_over_of(o.players, acted, o.highest_bet)
                                 THEN _next_active(o.players, current_idx)
                                 ELSE current_idx
               /\ since_raise' = IF o.raised THEN {Seat(current_idx)}
                                 ELSE since_raise \cup {Seat(current_idx)}
               /\ UNCHANGED <<button_idx, small_blind_amount, big_blind_amount,
                              phase, sb_idx, bb_idx, hands, mc, hand_over,
                              community_cards>>
           ELSE
               UNCHANGED vars

\* process_action(action) with the default amount, or RAISE with a target.
Act ==
    \E action \in ActionNames :
        \E amount \in (IF action = "RAISE" THEN RaiseAmounts ELSE {0}) :
            ProcessAction(action, amount)

\* --------------------------------------------------------- advance_phase
\* advance_phase that starts the round at the button instead of after it
AdvancePhaseFromButton ==
    /\ hands > 0
    /\ IF phase + 1 > SHOWDOWN THEN
           UNCHANGED vars
       ELSE
           LET cleared == [i \in Seats |-> reset_for_round(players[i])]
           IN  /\ phase' = phase + 1
               /\ players' = cleared
               /\ highest_bet' = 0
               /\ min_raise' = big_blind_amount
               /\ acted_this_round' = {}
               /\ current_idx' = next_active_self(cleared, button_idx)
               /\ since_raise' = {}
               /\ UNCHANGED <<pot, button_idx, small_blind_amount,
                              big_blind_amount, sb_idx, bb_idx, hands, mc, hand_over,
                              community_cards>>

\* advance_phase that wraps around from SHOWDOWN to PRE_FLOP
AdvancePhaseWrapping ==
    /\ hands > 0
    /\ LET cleared == [i \in Seats |-> reset_for_round(players[i])]
       IN  /\ phase' = (phase + 1) % (SHOWDOWN + 1)
           /\ players' = cleared
           /\ highest_bet' = 0
           /\ min_raise' = big_blind_amount
           /\ acted_this_round' = {}
           /\ current_idx' = _next_active(cleared, button_idx)
           /\ since_raise' = {}
           /\ UNCHANGED <<pot, button_idx, small_blind_amount,
                          big_blind_amount, sb_idx, bb_idx, hands, mc, hand_over,
                          community_cards>>

AdvancePhase ==
    /\ hands > 0
    /\ IF phase + 1 > SHOWDOWN THEN
           \* GamePhase(5) raises ValueError before anything is assigned
           UNCHANGED vars
       ELSE
           LET cleared == [i \in Seats |-> reset_for_round(players[i])]
           IN  /\ phase' = phase + 1
               /\ players' = cleared
               /\ highest_bet' = 0
               /\ min_raise' = big_blind_amount
               /\ acted_this_round' = {}
               /\ current_idx' = _next_active(cleared, button_idx)
               /\ since_raise' = {}
               /\ UNCHANGED <<pot, button_idx, small_blind_amount,
                              big_blind_amount, sb_idx, bb_idx, hands, mc, hand_over,
                              community_cards>>

Next == StartHand \/ GetLegalActions \/ Act \/ AdvancePhase

Spec == Init /\ [][Next]_vars

\* ======================================================================
\* AIEngine
\* ======================================================================
\* An equity is (wins + ties / 2) / iterations with iterations = 500: a
\* multiple of 1/1000. Equities are counted in thousandths.
EquityScale == 1000

\* Equities the sampler is given to return: both ends of [0, 1], the two
\* sides of the 0.70 threshold and values around the pot odds that occur.
EquityLevels == {0, 250, 334, 500, 700, 701, 850, 1000}

\* get_decision without the cap of the raise at the all-in total
get_decision_uncapped(equity) ==
    LET p == players[Seat(current_idx)]
        legal == get_legal_actions
        to_call == IF legal.CALL # 0 THEN legal.CALL ELSE 0
        over_pot_odds == IF to_call > 0
                         THEN equity * (pot + to_call) > to_call * EquityScale
                         ELSE equity > 0
    IN  IF equity > 700 /\ legal.RAISE_TO_MIN # 0 THEN
            [action |-> "RAISE",
             amount |-> Max(highest_bet + min_raise,
                            highest_bet + ((pot * (equity - 500)) \div EquityScale)) + 1]
        ELSE IF over_pot_odds THEN
            IF legal.CHECK THEN [action |-> "CHECK", amount |-> 0]
            ELSE [action |-> "CALL", amount |-> to_call]
        ELSE
            IF legal.CHECK THEN [action |-> "CHECK", amount |-> 0]
            ELSE [action |-> "FOLD", amount |-> 0]

\* get_decision for the current actor, given the equity the sampler
\* returned. equity > pot_odds is compared exactly (cross-multiplied), and
\* int(pot * (equity - 0.5)) is the integer part of a non-negative product.
get_decision(equity) ==
    LET p == players[Seat(current_idx)]
        legal == get_legal_actions
        to_call == IF legal.CALL # 0 THEN legal.CALL ELSE 0
        over_pot_odds == IF to_call > 0
                         THEN equity * (pot + to_call) > to_call * EquityScale
                         ELSE equity > 0
    IN  IF equity > 700 /\ legal.RAISE_TO_MIN # 0 THEN
            LET min_raise_abs == highest_bet + min_raise
                target_amount == highest_bet + ((pot * (equity - 500)) \div EquityScale)
                raise_size == Max(min_raise_abs, target_amount)
                final_raise == Min(raise_size, p.stack + p.current_bet)
            IN  [action |-> "RAISE", amount |-> final_raise]
        ELSE IF over_pot_odds THEN
            IF legal.CHECK THEN [action |-> "CHECK", amount |-> 0]
            ELSE [action |-> "CALL", amount |-> to_call]
        ELSE
            IF legal.CHECK THEN [action |-> "CHECK", amount |-> 0]
            ELSE [action |-> "FOLD", amount |-> 0]

\* ------------------------------------------------- _monte_carlo_equity
\* The controller's variables, which the sampler never touches.
controller == <<players, pot, community_cards, button_idx, small_blind_amount, big_blind_amount,
                phase, current_idx, min_raise, highest_bet, acted_this_round,
                sb_idx, bb_idx, since_raise, hands, hand_over>>

\* The number of community cards of a complete board.
BOARD_CARDS == 5

\* Deck().cards: the cards are numbered.
Deck == 1 .. DeckSize

\* set(list)
Cards(list) == {list[i] : i \in DOMAIN list}

RECURSIVE Ascending(_)
Ascending(S) ==
    IF S = {} THEN <<>>
    ELSE LET m == CHOOSE x \in S : \A y \in S : x <= y
         IN  <<m>> \o Ascending(S \ {m})

\* k successive pop() calls that leave the popped card in the list
RECURSIVE pops_kept(_, _)
pops_kept(cards, k) ==
    IF k = 0 THEN {<<>>}
    ELSE UNION {{<<c>> \o rest : rest \in pops_kept(cards, k - 1)} : c \in cards}

\* k successive pop() calls on the list random.shuffle has permuted: the
\* permutation is any one, so each pop() yields any card still in the list
\* and removes it. The result is every possible sequence of popped cards.
RECURSIVE pops(_, _)
pops(cards, k) ==
    IF k = 0 THEN {<<>>}
    ELSE UNION {{<<c>> \o rest : rest \in pops(cards \ {c}, k - 1)} : c \in cards}

\* The calls made: no pocket cards, or two of the first HeroRange cards,
\* with a board of 0 to 5 other cards.
HeroHands ==
    {<<>>} \cup {h \in (1 .. HeroRange) \X (1 .. HeroRange) : h[1] < h[2]}

SamplerInit ==
    /\ players = [i \in 0 .. 1 |-> NewPlayer(1)]
    /\ pot = 0
    /\ community_cards = 0
    /\ button_idx = 0
    /\ small_blind_amount = 0
    /\ big_blind_amount = 1
    /\ phase = PRE_FLOP
    /\ current_idx = 0
    /\ min_raise = 1
    /\ highest_bet = 0
    /\ acted_this_round = {}
    /\ sb_idx = NO_SEAT
    /\ bb_idx = NO_SEAT
    /\ since_raise = {}
    /\ hands = 0
    /\ hand_over = FALSE
    /\ \E hero \in HeroHands, n \in 0 .. BOARD_CARDS :
           mc = [McIdle EXCEPT
                    !.pc = "call",
                    !.pocket_cards = hero,
                    !.board_cards = SubSeq(Ascending(Deck \ Cards(hero)), 1, n)]

\* if not pocket_cards: return 0.0; wins = ties = 0; known_cards = set(...)
MonteCarloEnter ==
    /\ mc.pc = "call"
    /\ mc' = IF mc.pocket_cards = <<>>
             THEN [mc EXCEPT !.pc = "returned", !.equity = 0]
             ELSE [mc EXCEPT !.pc = "loop", !.wins = 0, !.ties = 0,
                             !.known_cards = Cards(mc.pocket_cards \o mc.board_cards)]
    /\ UNCHANGED controller

\* One more iteration: the available cards of a fresh deck, shuffled.
MonteCarloShuffle ==
    /\ mc.pc = "loop"
    /\ mc.done < iterations
    /\ mc' = [mc EXCEPT !.pc = "opp",
                        !.available_cards = Deck \ mc.known_cards]
    /\ UNCHANGED controller

\* opp_cards = [available_cards.pop(), available_cards.pop()]
MonteCarloDealOpp ==
    /\ mc.pc = "opp"
    /\ \E drawn \in pops(mc.available_cards, 2) :
           mc' = [mc EXCEPT !.pc = "board",
                            !.opp_cards = drawn,
                            !.available_cards = @ \ Cards(drawn)]
    /\ UNCHANGED controller

\* simulated_board = list(board_cards) plus the needed pops
MonteCarloDealBoard ==
    /\ mc.pc = "board"
    /\ \E drawn \in pops(mc.available_cards, BOARD_CARDS - Len(mc.board_cards)) :
           mc' = [mc EXCEPT !.pc = "eval",
                            !.simulated_board = mc.board_cards \o drawn,
                            !.available_cards = @ \ Cards(drawn)]
    /\ UNCHANGED controller

\* The two evaluate calls of the library and the comparison of the ranks:
\* any of the three results. The locals of the iteration end here.
MonteCarloEvaluate ==
    /\ mc.pc = "eval"
    /\ \E result \in {"win", "tie", "loss"} :
           mc' = [mc EXCEPT !.pc = "loop",
                            !.wins = IF result = "win" THEN @ + 1 ELSE @,
                            !.ties = IF result = "tie" THEN @ + 1 ELSE @,
                            !.done = @ + 1,
                            !.available_cards = {},
                            !.opp_cards = <<>>,
                            !.simulated_board = <<>>]
    /\ UNCHANGED controller

\* equity = (wins + (ties / 2)) / iterations, in thousandths
MonteCarloReturn ==
    /\ mc.pc = "loop"
    /\ mc.done = iterations
    /\ mc' = [mc EXCEPT !.pc = "returned",
                        !.equity = ((2 * mc.wins + mc.ties) * EquityScale)
                                       \div (2 * iterations)]
    /\ UNCHANGED controller

SamplerNext ==
    \/ MonteCarloEnter
    \/ MonteCarloShuffle
    \/ MonteCarloDealOpp
    \/ MonteCarloDealBoard
    \/ MonteCarloEvaluate
    \/ MonteCarloReturn

SamplerSpec == SamplerInit /\ [][SamplerNext]_vars

\* ======================================================================
\* main: one hand driven by the interactive loop
\* ======================================================================
\* Table.get_active_players, as the set of their seats
Active(ps) == {i \in DOMAIN ps : ps[i].is_active}

\* The community cards that main has put on the table once the cards of a
\* phase are entered: none pre-flop, 3 on the flop, one more on the turn
\* and on the river.
BoardAt(ph) == IF ph = PRE_FLOP THEN 0 ELSE ph + 2

\* game.start_hand() of main, which plays one hand.
MainStartHand ==
    /\ hands = 0
    /\ StartHand

\* The top of the phase loop: the cards of the phase are entered (an
\* invalid card is asked for again) and added to table.community_cards.
MainDeal ==
    /\ hands > 0
    /\ phase \in {FLOP, TURN, RIVER}
    /\ community_cards < BoardAt(phase)
    /\ community_cards' = community_cards + (IF phase = FLOP THEN 3 ELSE 1)
    /\ UNCHANGED <<players, pot, button_idx, small_blind_amount,
                   big_blind_amount, phase, current_idx, min_raise, highest_bet,
                   acted_this_round, sb_idx, bb_idx, since_raise, hands, mc, hand_over>>

\* One pass of the betting loop "while not game.is_round_over()": a player
\* who cannot act is passed over; the agent (player 0) plays get_decision
\* for the equity its sampler returned; anyone else enters an action, and
\* is asked again when process_action rejects it.
MainTurn ==
    /\ hands > 0
    /\ phase # SHOWDOWN
    /\ community_cards = BoardAt(phase)
    /\ ~is_round_over
    /\ LET p == players[Seat(current_idx)]
       IN  IF ~p.is_active \/ p.is_all_in THEN
               /\ current_idx' = _next_active(players, current_idx)
               /\ UNCHANGED <<players, pot, community_cards, button_idx,
                              small_blind_amount, big_blind_amount, phase,
                              min_raise, highest_bet, acted_this_round,
                              sb_idx, bb_idx, since_raise, hands, mc, hand_over>>
           ELSE IF Seat(current_idx) = 0 THEN
               \E equity \in EquityLevels :
                   ProcessAction(get_decision(equity).action,
                                 get_decision(equity).amount)
           ELSE
               Act

\* After the betting loop: the hand goes on to the next phase unless only
\* one active player is left.
MainAdvance ==
    /\ hands > 0
    /\ phase # SHOWDOWN
    /\ community_cards = BoardAt(phase)
    /\ is_round_over
    /\ Cardinality(Active(players)) # 1
    /\ AdvancePhase

\* The payout of main's showdown code to the seats of set winners, each
\* getting amount.
pay(ps, winners, amount) ==
    [i \in DOMAIN ps |->
        IF i \in winners THEN [ps[i] EXCEPT !.stack = @ + amount] ELSE ps[i]]

\* After the phase loop (left at SHOWDOWN, or by the break when one active
\* player remains): one active player takes the pot; otherwise the active
\* players who still have hole cards (seat 0, the AI, is never asked to
\* muck) are ranked, and the best ones get pot_size // len(winners) each;
\* nobody is paid when nobody shows cards.  The pot's amount stays.
MainShowdown ==
    /\ hands > 0
    /\ ~hand_over
    /\ \/ phase = SHOWDOWN
       \/ /\ community_cards = BoardAt(phase)
          /\ is_round_over
          /\ Cardinality(Active(players)) = 1
    /\ LET active_players == Active(players)
       IN  IF Cardinality(active_players) = 1 THEN
               players' = pay(players, active_players, pot)
           ELSE
               \E showdown_players \in SUBSET active_players :
                   /\ 0 \in active_players => 0 \in showdown_players
                   /\ IF showdown_players = {} THEN
                          players' = players
                      ELSE
                          \E winners \in (SUBSET showdown_players) \ {{}} :
                              players' = pay(players, winners,
                                             pot \div Cardinality(winners))
    /\ hand_over' = TRUE
    /\ UNCHANGED <<pot, community_cards, button_idx, small_blind_amount,
                   big_blind_amount, phase, current_idx, min_raise,
                   highest_bet, acted_this_round, sb_idx, bb_idx,
                   since_raise, hands, mc>>

MainNext ==
    MainStartHand \/ MainDeal \/ MainTurn \/ MainAdvance \/ MainShowdown

MainSpec == Init /\ [][MainNext]_vars

\* main is one sequential program: it goes on whenever its next statement
\* can run, and every prompt (cards, an action, showdown cards) is
\* eventually answered with an input the code accepts.
MainFairSpec ==
    /\ Init
    /\ [][MainNext]_vars
    /\ WF_vars(MainStartHand)
    /\ WF_vars(MainDeal)
    /\ WF_vars(MainTurn)
    /\ WF_vars(MainAdvance)
    /\ WF_vars(MainShowdown)

\* ======================================================================
\* Vocabulary of the properties
\* ======================================================================
RECURSIVE SumInvested(_, _)
SumInvested(ps, S) ==
    IF S = {} THEN 0
    ELSE LET i == CHOOSE x \in S : TRUE
         IN  ps[i].total_invested + SumInvested(ps, S \ {i})

\* Seats holding chips: the players a hand is dealt to.
Funded(ps) == {i \in DOMAIN ps : ps[i].stack > 0}

\* Clockwise distance (1 .. n) from seat b to seat i at a table of n seats.
Dist(b, i, n) == IF i > b THEN i - b ELSE i - b + n

\* The first seat of S clockwise after seat b (b itself comes last).
FirstAfter(S, b, n) ==
    CHOOSE i \in S : \A j \in S : Dist(b, i, n) <= Dist(b, j, n)

Eligible(ps) == {i \in DOMAIN ps : ps[i].is_active /\ ~ps[i].is_all_in}

\* Every call process_action can be given in this model.
Calls == {c \in ActionNames \X RaiseAmounts : c[1] = "RAISE" \/ c[2] = 0}

Actor == players[Seat(current_idx)]

\* ----------------------------------------------------------------------
\* C1: in every state reachable by start_hand, process_action (accepted or
\* rejected) and advance_phase calls, the players' total_invested add up
\* to the pot, also after capped blinds, short calls and RAISE targets
\* above the raiser's stack.
C1_PotEqualsInvested == SumInvested(players, Seats) = pot

\* A RAISE above the raiser's stack has been accepted: the raiser is all-in
\* below the highest bet it announced, and chips are in the pot.
C1_Witness ==
    /\ hands > 0 /\ pot > 0
    /\ highest_bet > big_blind_amount
    /\ \E i \in Seats : /\ players[i].is_all_in
                        /\ players[i].current_bet < highest_bet
                        /\ i \in since_raise /\ Cardinality(since_raise) = 1

\* ----------------------------------------------------------------------
\* C2: every illegal process_action call is rejected and leaves the whole
\* game state unchanged. Illegal are: CHECK with a non-zero call amount,
\* RAISE when raising is not legal, RAISE with no amount, RAISE below
\* highest_bet + min_raise that is not the all-in total, and any unknown
\* action name.
IllegalCall(action, amount) ==
    LET call == Min(highest_bet - Actor.current_bet, Actor.stack)
    IN  \/ action = "CHECK" /\ call # 0
        \/ action = "RAISE" /\ ~(Actor.stack > highest_bet - Actor.current_bet)
        \/ action = "RAISE" /\ amount = 0
        \/ action = "RAISE" /\ amount < highest_bet + min_raise
                            /\ amount # Actor.stack + Actor.current_bet
        \/ action \notin {"FOLD", "CHECK", "CALL", "RAISE"}

C2_RejectedCallsChangeNothing ==
    /\ [](hands > 0 => \A c \in Calls :
                          IllegalCall(c[1], c[2]) => ~Outcome(c[1], c[2]).ok)
    /\ [][\A c \in Calls :
             ((IllegalCall(c[1], c[2]) \/ ~Outcome(c[1], c[2]).ok)
                /\ ProcessAction(c[1], c[2]))
                 => UNCHANGED vars]_vars

\* The actor faces a bet and can raise: CHECK, RAISE with no amount, a RAISE
\* below the minimum that is not all-in and an unknown action are all
\* illegal here, and have been tried (a rejected call leaves this state).
C2_Witness ==
    /\ hands > 0
    /\ highest_bet > Actor.current_bet
    /\ Actor.stack > highest_bet - Actor.current_bet
    /\ \E c \in Calls : c[1] = "RAISE" /\ c[2] > highest_bet /\ IllegalCall(c[1], c[2])

\* ----------------------------------------------------------------------
\* C3 (as stated): after start_hand() with at least two players holding
\* chips, exactly two distinct players have a non-zero current_bet and the
\* pot equals small_blind + big_blind, for every stacks and blinds (shown
\* to fail already on tables whose small blind is not zero).
C3_Original ==
    [][(StartHand /\ Cardinality(Funded(players)) >= 2
                  /\ small_blind_amount > 0) =>
          /\ Cardinality({i \in Seats : players'[i].current_bet # 0}) = 2
          /\ pot' = small_blind_amount + big_blind_amount]_vars

\* C3 (amended): after start_hand() with at least two players holding
\* chips, the blinds are posted by two distinct players, each capped at the
\* poster's stack: the pot is min(small_blind, stack) + min(big_blind,
\* stack) of the two posters, which is small_blind + big_blind exactly when
\* both stacks cover their blind, and the players with a non-zero
\* current_bet are exactly the two posters when the small blind is not 0.
C3_BlindsCappedPot ==
    [][(StartHand /\ Cardinality(Funded(players)) >= 2) =>
          LET n == NumPlayers
              s == FirstAfter(Funded(players), button_idx', n)
              b == FirstAfter(Funded(players), s, n)
              sbPaid == Min(small_blind_amount, players[s].stack)
              bbPaid == Min(big_blind_amount, players[b].stack)
          IN  /\ s # b
              /\ pot' = sbPaid + bbPaid
              /\ (pot' = small_blind_amount + big_blind_amount) <=>
                     (players[s].stack >= small_blind_amount
                        /\ players[b].stack >= big_blind_amount)
              /\ {i \in Seats : players'[i].current_bet # 0} =
                     (IF small_blind_amount # 0 THEN {s, b} ELSE {b})]_vars

\* A hand has just started with a blind capped by a short stack.
C3_Witness ==
    /\ hands > 0 /\ phase = PRE_FLOP /\ acted_this_round = {}
    /\ sb_idx # bb_idx
    /\ pot > 0 /\ pot < small_blind_amount + big_blind_amount
    /\ pot = SumInvested(players, {sb_idx, bb_idx})
    /\ players[bb_idx].is_all_in /\ players[bb_idx].current_bet < big_blind_amount

\* ----------------------------------------------------------------------
\* C4: in a two-player hand, after start_hand() the player at the button
\* index is the one who posted the small blind and is the current actor
\* (stated for stacks that cover the blinds, and a small blind that is not
\* zero, where the poster of each blind is beyond doubt).
C4_ButtonIsSmallBlindAndActsFirst ==
    [][(StartHand /\ NumPlayers = 2 /\ small_blind_amount > 0
                  /\ \A i \in Seats : players[i].stack > big_blind_amount) =>
          /\ sb_idx' = button_idx'
          /\ players'[button_idx'].current_bet
                 = Min(small_blind_amount, players[button_idx'].stack)
          /\ current_idx' = button_idx']_vars

StackAtStart(i) == players[i].stack + players[i].total_invested

\* No raise yet in this pre-flop round, and the big blind has not acted.
Limped ==
    /\ hands > 0 /\ phase = PRE_FLOP /\ sb_idx # bb_idx
    /\ highest_bet = big_blind_amount
    /\ bb_idx \notin since_raise

\* Every player other than the big blind has called or has folded.
OthersCalledOrFolded ==
    \A i \in Seats \ {bb_idx} :
        \/ ~players[i].is_active
        \/ i \in since_raise /\ players[i].current_bet = highest_bet

\* What the blinds and the calls put in the pot when all stacks cover the
\* big blind: a folded small blind leaves its blind, a caller the big blind.
LimpedPot ==
    LET paid(i) == IF i = bb_idx THEN big_blind_amount
                   ELSE IF players[i].is_active THEN big_blind_amount
                   ELSE IF i = sb_idx THEN small_blind_amount
                   ELSE 0
        RECURSIVE total(_)
        total(S) == IF S = {} THEN 0
                    ELSE LET i == CHOOSE x \in S : TRUE
                         IN  paid(i) + total(S \ {i})
    IN  total(Seats)

\* C6 (as stated): pre-flop, when all stacks cover the big blind (stack >=
\* big blind) and every other player has called or folded without raising,
\* is_round_over() is false until the big blind has acted (shown to fail
\* already on tables whose small blind is not zero, with a caller left).
C6_Original ==
    (Limped /\ OthersCalledOrFolded /\ small_blind_amount > 0
        /\ (\E i \in Seats \ {bb_idx} : players[i].is_active)
        /\ \A i \in Seats : StackAtStart(i) >= big_blind_amount)
        => ~is_round_over

\* C6 (amended): pre-flop, when all stacks cover the big blind and the big
\* blind's stack exceeds it (the big blind is not all-in), then as long as
\* nobody has raised and the big blind has not acted is_round_over() is
\* false, also when all bets are matched; once every other player has
\* called or folded and the big blind CHECKs, is_round_over() is true and
\* the pot is the sum of the posted blinds and the calls.
C6_BigBlindOption ==
    /\ []((Limped /\ (\A i \in Seats : StackAtStart(i) >= big_blind_amount)
                  /\ StackAtStart(bb_idx) > big_blind_amount)
            => ~is_round_over)
    /\ [][(/\ Limped
           /\ \A i \in Seats : StackAtStart(i) >= big_blind_amount
           /\ StackAtStart(bb_idx) > big_blind_amount
           /\ OthersCalledOrFolded
           /\ current_idx = bb_idx
           /\ ProcessAction("CHECK", 0))
             => (/\ is_round_over'
                 /\ pot' = LimpedPot
                 /\ pot' = SumInvested(players', Seats))]_vars

\* Two players, blinds 1/2 (10/20): the small blind has called (pot 4, that
\* is 40) and the big blind has checked: the round is over.
C6_Witness ==
    /\ NumPlayers = 2 /\ small_blind_amount = 1 /\ big_blind_amount = 2
    /\ hands > 0 /\ phase = PRE_FLOP /\ highest_bet = 2 /\ min_raise = 2
    /\ since_raise = {0, 1} /\ acted_this_round = {0, 1}
    /\ \A i \in Seats : /\ players[i].is_active /\ ~players[i].is_all_in
                        /\ players[i].current_bet = 2
    /\ pot = 4 /\ is_round_over /\ current_idx = bb_idx

\* ----------------------------------------------------------------------
\* C7: forced bets are capped at the poster's stack: after start_hand()
\* each blind poster has committed min(blind, stack), is all-in exactly
\* when the blind consumed the whole stack, and the pot is the sum of what
\* was posted. When both posters of a two-player hand are forced all-in
\* (blinds 1/2, stacks 1) the pot is 2, both are all-in, there is no
\* eligible actor and is_round_over() is true at once.
C7_BlindsCappedAtStack ==
    [][(StartHand /\ Cardinality(Funded(players)) >= 2) =>
          LET n == NumPlayers
              s == FirstAfter(Funded(players), button_idx', n)
              b == FirstAfter(Funded(players), s, n)
          IN  /\ players'[s].current_bet = Min(small_blind_amount, players[s].stack)
              /\ players'[b].current_bet = Min(big_blind_amount, players[b].stack)
              /\ players'[s].stack = players[s].stack - players'[s].current_bet
              /\ players'[b].stack = players[b].stack - players'[b].current_bet
              /\ players'[s].is_all_in <=> (players'[s].stack = 0)
              /\ players'[b].is_all_in <=> (players'[b].stack = 0)
              /\ pot' = players'[s].current_bet + players'[b].current_bet
              /\ (n = 2 /\ players'[s].is_all_in /\ players'[b].is_all_in) =>
                     (/\ current_idx' = NO_SEAT
                      /\ is_round_over')
              /\ (n = 2 /\ big_blind_amount = 2 /\ small_blind_amount = 1
                        /\ players[s].stack = 1 /\ players[b].stack = 1) =>
                     (/\ pot' = 2
                      /\ players'[s].is_all_in /\ players'[b].is_all_in
                      /\ current_idx' = NO_SEAT)]_vars

\* The two-player table with blinds 1/2 and stacks of 1 right after
\* start_hand().
C7_Witness ==
    /\ NumPlayers = 2 /\ hands = 1 /\ big_blind_amount = 2 /\ small_blind_amount = 1
    /\ \A i \in Seats : /\ players[i].is_all_in /\ players[i].stack = 0
                        /\ players[i].total_invested = 1
    /\ pot = 2 /\ current_idx = NO_SEAT /\ is_round_over
    /\ acted_this_round = {} /\ phase = PRE_FLOP

\* ----------------------------------------------------------------------
\* C8: in every reachable state, is_round_over() is true iff every player
\* who is active and not all-in has acted since the most recent raise of
\* the round (or since it began) and has current_bet equal to highest_bet;
\* folded and all-in players never influence the result.
ClaimedRoundOver ==
    \A i \in Seats :
        (players[i].is_active /\ ~players[i].is_all_in) =>
            (i \in since_raise /\ players[i].current_bet = highest_bet)

C8_RoundOverIff ==
        /\ is_round_over <=> ClaimedRoundOver
        /\ \A j \in Seats \ Eligible(players) : \A bet_j \in 0 .. highest_bet :
               /\ is_round_over_of([players EXCEPT ![j].current_bet = bet_j],
                                   acted_this_round \cup {j}, highest_bet)
                      = is_round_over
               /\ is_round_over_of([players EXCEPT ![j].current_bet = bet_j],
                                   acted_this_round \ {j}, highest_bet)
                      = is_round_over

\* The round is over after a raise, with two players still able to act, one
\* player all-in below the highest bet and one folded.
C8_Witness ==
    /\ hands > 0 /\ sb_idx # bb_idx /\ is_round_over
    /\ highest_bet > big_blind_amount
    /\ Cardinality(Eligible(players)) >= 1
    /\ \E j \in Seats : players[j].is_active /\ players[j].is_all_in
                          /\ players[j].current_bet < highest_bet
    /\ \E k \in Seats : ~players[k].is_active

\* ----------------------------------------------------------------------
\* C9: whenever a player is due to act, get_legal_actions() reports FOLD
\* legal; CALL = min(highest_bet - current_bet, stack); CHECK legal iff
\* that call amount is zero; raising legal iff stack > highest_bet -
\* current_bet, then with minimum min(highest_bet + min_raise, stack +
\* current_bet) <= maximum stack + current_bet, else both raise entries
\* illegal (0 stands for False); and the call changes no state.
DueToAct ==
    /\ hands > 0
    /\ current_idx # NO_SEAT
    /\ Actor.is_active /\ ~Actor.is_all_in
    /\ ~is_round_over

C9_LegalActions ==
    /\ [](DueToAct =>
            LET call == Min(highest_bet - Actor.current_bet, Actor.stack)
                canRaise == Actor.stack > highest_bet - Actor.current_bet
                legal == get_legal_actions
            IN  /\ legal.FOLD = TRUE
                /\ legal.CALL = call
                /\ legal.CHECK <=> (call = 0)
                /\ canRaise =>
                       /\ legal.RAISE_TO_MIN =
                              Min(highest_bet + min_raise,
                                  Actor.stack + Actor.current_bet)
                       /\ legal.RAISE_TO_MAX = Actor.stack + Actor.current_bet
                       /\ legal.RAISE_TO_MIN <= legal.RAISE_TO_MAX
                       /\ legal.RAISE_TO_MIN > 0
                /\ ~canRaise => (legal.RAISE_TO_MIN = 0 /\ legal.RAISE_TO_MAX = 0))
    /\ [][GetLegalActions => UNCHANGED game]_vars

\* The actor faces a bet it can raise, but only by going all-in below the
\* minimum raise.
C9_Witness ==
    /\ DueToAct
    /\ highest_bet > Actor.current_bet
    /\ Actor.stack > highest_bet - Actor.current_bet
    /\ Actor.stack + Actor.current_bet < highest_bet + min_raise

\* ----------------------------------------------------------------------
\* C10: a successful RAISE to amount sets highest_bet to amount, strictly
\* above its previous value. If amount - old highest_bet >= min_raise,
\* min_raise becomes that increment and the acted-set becomes {raiser};
\* otherwise (short all-in raise) min_raise is unchanged and the acted-set
\* only gains the raiser.
C10_RaiseUpdates ==
    [][\A amount \in RaiseAmounts :
          (Outcome("RAISE", amount).ok /\ ProcessAction("RAISE", amount)) =>
              /\ highest_bet' = amount
              /\ amount > highest_bet
              /\ IF amount - highest_bet >= min_raise
                 THEN /\ min_raise' = amount - highest_bet
                      /\ acted_this_round' = {current_idx}
                 ELSE /\ min_raise' = min_raise
                      /\ acted_this_round' = acted_this_round \cup {current_idx}
                      /\ Actor.stack + Actor.current_bet = amount
                      /\ players'[Seat(current_idx)].is_all_in]_vars

\* A short all-in raise has just been made over the big blind after another
\* player had acted: the acted-set kept the earlier member.
C10_Witness ==
    /\ hands > 0 /\ phase = PRE_FLOP
    /\ highest_bet > big_blind_amount
    /\ highest_bet < big_blind_amount + min_raise
    /\ min_raise = big_blind_amount
    /\ Cardinality(since_raise) = 1
    /\ Cardinality(acted_this_round) >= 2
    /\ \A r \in since_raise : /\ players[r].is_all_in
                              /\ players[r].current_bet = highest_bet

\* ----------------------------------------------------------------------
\* C11: a short all-in raise (increment below min_raise) does not reopen
\* the action: when the turn is back at a player who had already acted and
\* matched the previous highest bet (the player is still in the acted-set,
\* which only a full raise empties, and its bet is below highest_bet), a
\* RAISE is not reported legal and every RAISE of that player is rejected.
FacesShortAllIn ==
    /\ hands > 0
    /\ current_idx # NO_SEAT
    /\ Actor.is_active /\ ~Actor.is_all_in
    /\ current_idx \in acted_this_round
    /\ Actor.current_bet < highest_bet

C11_ShortAllInDoesNotReopen ==
    FacesShortAllIn =>
        /\ get_legal_actions.RAISE_TO_MIN = 0
        /\ \A amount \in RaiseAmounts : ~Outcome("RAISE", amount).ok

\* ----------------------------------------------------------------------
\* C12: process_action('RAISE', amount) never accepts an amount above the
\* actor's all-in total stack + current_bet (the reported RAISE_TO_MAX),
\* so after every successful RAISE the raiser's current_bet equals the new
\* highest_bet.
C12_RaiseWithinAllIn ==
    [][\A amount \in RaiseAmounts :
          (Outcome("RAISE", amount).ok /\ ProcessAction("RAISE", amount)) =>
              /\ amount <= Actor.stack + Actor.current_bet
              /\ amount <= get_legal_actions.RAISE_TO_MAX
              /\ players'[Seat(current_idx)].current_bet = highest_bet']_vars

\* ----------------------------------------------------------------------
\* C13: within one hand the phase only moves forward along PRE_FLOP < FLOP
\* < TURN < RIVER < SHOWDOWN: advance_phase() adds exactly one step,
\* process_action (accepted or rejected) and get_legal_actions never change
\* the phase, advance_phase() at SHOWDOWN fails and changes nothing, and
\* only start_hand() returns the phase to PRE_FLOP.
C13_PhaseMonotone ==
    /\ [](phase \in PRE_FLOP .. SHOWDOWN)
    /\ [][/\ AdvancePhase =>
                IF phase = SHOWDOWN THEN UNCHANGED vars
                ELSE phase' = phase + 1
          /\ Act => phase' = phase
          /\ GetLegalActions => phase' = phase
          /\ phase' < phase => (StartHand /\ phase' = PRE_FLOP /\ hands' = hands + 1)
          /\ hands' = hands => (phase' = phase \/ phase' = phase + 1)
          /\ StartHand => phase' = PRE_FLOP]_vars

\* The second hand has been played through to SHOWDOWN with chips in the
\* pot: every phase was passed in both hands.
C13_Witness ==
    /\ hands = 2 /\ phase = SHOWDOWN /\ pot > 0
    /\ acted_this_round # {}

\* ----------------------------------------------------------------------
\* C14: as soon as a FOLD of the player due to act leaves exactly one
\* active player, is_round_over() is true, so that the betting loop ends
\* without asking the remaining player for an action, in every phase and
\* for every position of the folding player.
C14_FoldToOneEndsRound ==
    [][(DueToAct /\ ProcessAction("FOLD", 0)
                 /\ Cardinality(Active(players')) = 1)
          => is_round_over']_vars

\* ----------------------------------------------------------------------
\* C15: in every state in which a player is due to act, for every equity
\* the sampler may return, get_decision follows its three rules and is
\* legal: RAISE only when equity > 0.70 and raising is legal, to a target
\* between the reported minimum and maximum raise-to (the larger of
\* highest_bet + min_raise and highest_bet + floor(pot * (equity - 0.5)),
\* capped at the all-in total); otherwise CHECK whenever the call amount is
\* zero, CALL only when equity > pot_odds, FOLD only when a check is not
\* free; and process_action accepts the returned action and amount.
C15_DecisionLegal ==
    DueToAct =>
        \A equity \in EquityLevels :
            LET d == get_decision(equity)
                legal == get_legal_actions
                call == Min(highest_bet - Actor.current_bet, Actor.stack)
                canRaise == Actor.stack > highest_bet - Actor.current_bet
                allIn == Actor.stack + Actor.current_bet
                wanted == Max(highest_bet + min_raise,
                              highest_bet + ((pot * (equity - 500)) \div EquityScale))
                \* equity > pot_odds, pot_odds being call / (pot + call) for a
                \* call above 0 and 0 otherwise
                overPotOdds == IF call > 0
                               THEN equity * (pot + call) > call * EquityScale
                               ELSE equity > 0
            IN  /\ d.action \in {"FOLD", "CHECK", "CALL", "RAISE"}
                /\ (d.action = "RAISE") <=> (equity > 700 /\ canRaise)
                /\ d.action = "RAISE" =>
                       /\ legal.RAISE_TO_MIN <= d.amount
                       /\ d.amount <= legal.RAISE_TO_MAX
                       /\ d.amount = Min(wanted, allIn)
                /\ (d.action # "RAISE" /\ call = 0) => d.action = "CHECK"
                /\ d.action = "CHECK" => call = 0
                /\ d.action = "CALL" =>
                       /\ call # 0
                       /\ overPotOdds
                       /\ d.amount = call
                /\ d.action = "FOLD" =>
                       /\ call # 0
                       /\ ~overPotOdds
                /\ Outcome(d.action, d.amount).ok

\* The actor faces a bet it can raise, with a pot large enough for the
\* equity-sized target to exceed the minimum raise and the all-in total to
\* cap it.
C15_Witness ==
    /\ DueToAct
    /\ highest_bet > Actor.current_bet
    /\ Actor.stack > highest_bet - Actor.current_bet
    /\ get_decision(1000).action = "RAISE"
    /\ highest_bet + ((pot * 500) \div EquityScale) > highest_bet + min_raise
    /\ get_decision(1000).amount = Actor.stack + Actor.current_bet
    /\ get_decision(250).action = "FOLD"
    /\ get_decision(500).action = "CALL"

\* ----------------------------------------------------------------------
\* C16: in every trial of the equity sampler, for any hero hand and any
\* board of 0 to 5 known cards, exactly 2 opponent cards and exactly
\* 5 - |board| further community cards are drawn without replacement from
\* the cards that are neither hero cards nor board cards: hero cards,
\* opponent cards and the completed 5-card board are pairwise disjoint and
\* hold no card twice; the known-card set is the same in every trial; and
\* the result is (wins + ties / 2) / iterations, which lies in [0, 1].
NoRepeat(list) == Cardinality(Cards(list)) = Len(list)

C16_ExactDrawsWithoutReplacement ==
    LET hero == mc.pocket_cards
        board == mc.board_cards
        known == Cards(hero) \cup Cards(board)
        fresh == SubSeq(mc.simulated_board, Len(board) + 1, Len(mc.simulated_board))
    IN  /\ mc.pc \in {"loop", "opp", "board", "eval"} => mc.known_cards = known
        /\ mc.pc = "opp" => mc.available_cards = Deck \ known
        /\ mc.pc \in {"board", "eval"} =>
               /\ Len(mc.opp_cards) = 2
               /\ NoRepeat(mc.opp_cards)
               /\ Cards(mc.opp_cards) \subseteq Deck \ known
        /\ mc.pc = "eval" =>
               /\ Len(mc.simulated_board) = BOARD_CARDS
               /\ SubSeq(mc.simulated_board, 1, Len(board)) = board
               /\ Len(fresh) = BOARD_CARDS - Len(board)
               /\ Cards(fresh) \subseteq Deck \ known
               /\ NoRepeat(hero \o mc.opp_cards \o mc.simulated_board)
               /\ Cardinality(mc.available_cards)
                      = DeckSize - Cardinality(known) - 2 - (BOARD_CARDS - Len(board))
        /\ mc.wins + mc.ties <= mc.done /\ mc.done <= iterations
        /\ mc.pc = "returned" =>
               /\ mc.equity * 2 * iterations <= (2 * mc.wins + mc.ties) * EquityScale
               /\ (mc.equity + 1) * 2 * iterations > (2 * mc.wins + mc.ties) * EquityScale
               /\ mc.equity >= 0 /\ mc.equity <= EquityScale
               /\ hero # <<>> => mc.done = iterations

\* In the second trial of a pre-flop call (empty board), after a tie in the
\* first, two opponent cards and five board cards have been drawn.
C16_Witness ==
    /\ mc.pc = "eval" /\ mc.done = 1 /\ mc.ties = 1
    /\ mc.board_cards = <<>> /\ Len(mc.pocket_cards) = 2
    /\ Len(mc.simulated_board) = BOARD_CARDS /\ Len(mc.opp_cards) = 2

\* ----------------------------------------------------------------------
\* C17: advance_phase() (when it succeeds) resets every player's
\* current_bet to 0, sets highest_bet to 0 and min_raise to the big blind,
\* empties the acted-set and makes the current actor the first active,
\* non-all-in player clockwise after the button (the sentinel if there is
\* none); it leaves every player's stack, total_invested, is_active and
\* is_all_in, the pot, the button index and the community cards unchanged.
C17_AdvancePhaseFrame ==
    [][(AdvancePhase /\ phase # SHOWDOWN) =>
          LET E == Eligible(players)
          IN  /\ \A i \in Seats :
                     /\ players'[i].current_bet = 0
                     /\ players'[i].stack = players[i].stack
                     /\ players'[i].total_invested = players[i].total_invested
                     /\ players'[i].is_active = players[i].is_active
                     /\ players'[i].is_all_in = players[i].is_all_in
              /\ DOMAIN players' = DOMAIN players
              /\ highest_bet' = 0
              /\ min_raise' = big_blind_amount
              /\ acted_this_round' = {}
              /\ current_idx' = (IF E = {} THEN NO_SEAT
                                 ELSE FirstAfter(E, button_idx, NumPlayers))
              /\ UNCHANGED <<pot, button_idx, community_cards,
                             small_blind_amount, big_blind_amount>>]_vars

\* advance_phase() has just been called after a raise and a fold: bets are
\* back to 0 with chips invested, and the button player is not eligible, so
\* the actor is further round the table.
C17_Witness ==
    /\ hands > 0 /\ phase = FLOP /\ acted_this_round = {} /\ highest_bet = 0
    /\ min_raise = big_blind_amount
    /\ NumPlayers = 3
    /\ \A i \in Seats : players[i].current_bet = 0
    /\ \E i \in Seats : players[i].total_invested > big_blind_amount
    /\ \E i \in Seats : ~players[i].is_active
    /\ ~(players[button_idx].is_active /\ ~players[button_idx].is_all_in)
    /\ current_idx # NO_SEAT
    /\ current_idx # (button_idx + 1) % NumPlayers

\* ----------------------------------------------------------------------
\* C18: whenever is_round_over() is false after start_hand(), after a
\* successful process_action or after advance_phase(), the current actor
\* index is a valid seat (never the sentinel) of a player who is active,
\* not all-in and still owes an action (is not in the acted-set or has
\* current_bet below highest_bet); after a successful process_action that
\* leaves the round open, the new actor is the first active non-all-in
\* player clockwise from the previous actor.
Owes(ps, acted, highest, i) ==
    /\ i \in DOMAIN ps
    /\ ps[i].is_active /\ ~ps[i].is_all_in
    /\ (i \notin acted \/ ps[i].current_bet < highest)

C18_ActorOwesAction ==
    [][/\ (/\ ~is_round_over'
           /\ (StartHand \/ (AdvancePhase /\ phase' # phase)))
          => Owes(players', acted_this_round', highest_bet', current_idx')
       /\ (/\ ~is_round_over'
           /\ hands' = hands /\ phase' = phase
           /\ \E c \in Calls : Outcome(c[1], c[2]).ok /\ ProcessAction(c[1], c[2]))
          => /\ Owes(players', acted_this_round', highest_bet', current_idx')
             /\ current_idx' = FirstAfter(Eligible(players'), Seat(current_idx),
                                          NumPlayers)]_vars

\* Three players: after a short all-in raise the turn is back at a player
\* who had already acted, and who owes the difference; the seat between
\* the raiser and that player has folded and was passed over.
C18_Witness ==
    /\ hands > 0 /\ ~is_round_over /\ NumPlayers = 3
    /\ current_idx \in Seats
    /\ current_idx \in acted_this_round
    /\ Actor.is_active /\ ~Actor.is_all_in
    /\ Actor.current_bet < highest_bet
    /\ \E r \in since_raise :
           /\ players[r].is_all_in
           /\ ~players[(r + 1) % 3].is_active
           /\ current_idx = (r + 2) % 3

\* ----------------------------------------------------------------------
\* C19: in every reachable state after start_hand(), highest_bet equals
\* the maximum current_bet over all players (stated for hands whose big
\* blind was posted in full by a player other than the small blind, where
\* the equality holds right after start_hand()).
MaxCurrentBet ==
    CHOOSE m \in {players[i].current_bet : i \in Seats} :
        \A i \in Seats : players[i].current_bet <= m

C19_HighestBetIsMaxBet ==
    (/\ hands > 0
     /\ sb_idx # bb_idx
     /\ StackAtStart(bb_idx) >= big_blind_amount)
        => highest_bet = MaxCurrentBet

\* ----------------------------------------------------------------------
\* C20: in a hand started with at least two active players and driven by
\* the main loop (process_action only while is_round_over() is false,
\* advance_phase only when it is true), at least one player is active in
\* every reachable state: the last active player is never folded.
C20_SomePlayerActive ==
    hands > 0 => Active(players) # {}

\* ----------------------------------------------------------------------
\* Exactly one active player still holds chips, that player's current_bet
\* equals highest_bet, and every other active player is all-in.
LoneMatched ==
    /\ hands > 0
    /\ phase # SHOWDOWN
    /\ Cardinality(Eligible(players)) = 1
    /\ Cardinality(Active(players)) >= 2
    /\ \A i \in Eligible(players) : players[i].current_bet = highest_bet

\* C21: once one active player at most is not all-in and that player has
\* matched highest_bet, no further chips enter the pot for the rest of the
\* hand: is_round_over() is true right after every advance_phase() into a
\* later betting phase, and no call made while the round is open moves
\* chips of the lone player into the pot.
C21_LonePlayerBypassed ==
    /\ [][(/\ LoneMatched
           /\ is_round_over
           /\ phase < RIVER
           /\ AdvancePhase) => is_round_over']_vars
    /\ [][(/\ LoneMatched
           /\ ~is_round_over
           /\ hands' = hands) => pot' = pot]_vars

\* ----------------------------------------------------------------------
RECURSIVE SumStacks(_, _)
SumStacks(ps, S) ==
    IF S = {} THEN 0
    ELSE LET i == CHOOSE x \in S : TRUE
         IN  ps[i].stack + SumStacks(ps, S \ {i})

\* What is left to do in a betting round: the chips still behind, and then
\* the players who still owe an action.
Rank ==
    SumStacks(players, Seats) * (NumPlayers + 1)
        + Cardinality({i \in Seats :
                          Owes(players, acted_this_round, highest_bet, i)})

\* main has left its phase loop: the phase is SHOWDOWN, or a betting round
\* ended with one active player.
LoopLeft ==
    /\ hands > 0
    /\ \/ phase = SHOWDOWN
       \/ /\ community_cards = BoardAt(phase)
          /\ is_round_over
          /\ Cardinality(Active(players)) = 1

\* C22: every betting round terminates.  Each accepted process_action made
\* in main's betting loop lowers a natural number (the chips still in the
\* stacks, then the number of players who owe an action), so there is no
\* infinite sequence of them; and when every prompt is eventually answered
\* with an accepted input, is_round_over() becomes true in every betting
\* phase that is entered and the hand leaves the phase loop, at SHOWDOWN or
\* with a single active player.
C22_BettingTerminates ==
    /\ [](Rank >= 0)
    /\ [][MainTurn => Rank' < Rank]_vars
    /\ (hands > 0 /\ phase # SHOWDOWN) ~> is_round_over
    /\ <>LoopLeft

\* The hand was played through all four betting rounds with a raise, and
\* reached SHOWDOWN with players who could still bet.
C22_Witness ==
    /\ phase = SHOWDOWN
    /\ Cardinality(Eligible(players)) >= 2
    /\ pot > NumPlayers * big_blind_amount

\* ----------------------------------------------------------------------
Chips == SumStacks(players, Seats)

\* C23: chips are conserved over a complete hand.  start_hand() turns the
\* stacks it finds into stacks plus pot of the same total, every later call
\* of the hand keeps the sum of all stacks plus the pot, and the payout
\* (win by default, or showdown with one or several winners) hands the
\* whole pot back, so that the stacks again add up to what they were
\* before start_hand(): no chip is created or lost.
C23_ChipsConserved ==
    /\ [][hands' # hands => Chips' + pot' = Chips]_vars
    /\ [][(hands' = hands /\ hand_over' = hand_over)
              => Chips' + pot' = Chips + pot]_vars
    /\ [][MainShowdown => Chips' = Chips + pot]_vars
====
